---- MODULE Spec2Model ----
(***************************************************************************)
(* Batch orchestration of PDF handwriting recognition, as implemented by   *)
(* the three driver scripts of the repository:                             *)
(*   scripts/gradio_demo.py          (SimplePDFProcessor, process_pdf_file, *)
(*                                    save_results, __main__)              *)
(*   scripts/pdf_demo_not_working.py (PDFProcessor.pdf_to_images,          *)
(*                                    process_pdf_with_htr,                *)
(*                                    process_pdf_to_files)                *)
(*   scripts/check.py                (PDFProcessor.pdf_to_images,          *)
(*                                    process_page, process_pdf_with_htr,  *)
(*                                    the web interface)                   *)
(* Text is a sequence of characters; the rasterization engine              *)
(* (convert_from_path) and the recognition engine (read_page) are external *)
(* and are modelled by the nondeterministic outcomes of their calls.       *)
(***************************************************************************)
EXTENDS Integers, Sequences, FiniteSets, TLC

VARIABLES
    args,          \* the arguments of the run (script, paths, flags)
    pc,            \* position of the run in the driver code
    dirs,          \* directories that exist on the filesystem
    files,         \* files on the filesystem: name -> content
    poppler,       \* local poppler_path of pdf_to_images / convert_pdf_to_images
    pil_images,    \* list returned by convert_from_path
    cv2_images,    \* list built by the conversion loop
    image_paths,   \* list of saved image paths (pdf_demo_not_working.py)
    images,        \* list returned to the page loop
    i,             \* 1-based index of the page loop
    read_lines,    \* value returned by the latest read_page call
    results,       \* the results list of the page loop
    full_text,     \* check.py: the accumulated text
    vis,           \* check.py: visualization_images
    ret,           \* what the entry point handed to its caller
    raster_calls,  \* number of convert_from_path calls made
    read_calls     \* log of the read_page calls made

vars == <<args, pc, dirs, files, poppler, pil_images, cv2_images, image_paths,
          images, i, read_lines, results, full_text, vis, ret, raster_calls,
          read_calls>>

----------------------------------------------------------------------------
(* Bounds of the model                                                     *)

MaxPages == 2       \* pages of the source document: 0..MaxPages
MaxInstalled == 2   \* toolchain directories present on the machine
TxtMaxLines == 2    \* lines of a page in the text specification
TxtMaxWords == 2    \* words of a line in the text specification

----------------------------------------------------------------------------
(* Values                                                                  *)

None == "None"
SP == " "
NL == "\n"
Cwd == ""
OutDir == "extracted_results"
Custom == "custom_poppler"
Tree == "PrefixTree"

SIMPLE == "gradio_demo.py"
PDFDEMO == "pdf_demo_not_working.py"
WEBUI == "check.py"

WordTexts == {<<>>, <<"a">>, <<"b">>}

SeqsUpTo(S, n) == UNION {[1..k -> S] : k \in 0..n}

\* Outcomes of read_page used by the pipeline specification
SamplePages ==
    { <<>>,
      << <<>> >>,
      << <<<<"a">>, <<"b">>>> >>,
      << <<<<"b">>>>, <<>>, <<<<"a">>, <<"a">>>> >> }

\* Outcomes of read_page used by the text specification
BoundedPages == SeqsUpTo(SeqsUpTo(WordTexts, TxtMaxWords), TxtMaxLines)

----------------------------------------------------------------------------
(* Strings                                                                 *)

DigitChars == <<"0", "1", "2", "3", "4", "5", "6", "7", "8", "9">>

RECURSIVE Str(_)
Str(n) ==
    IF n < 10 THEN <<DigitChars[n + 1]>>
    ELSE Str(n \div 10) \o <<DigitChars[(n % 10) + 1]>>

\* f"{n:03d}"
Pad3(n) ==
    LET s == Str(n)
    IN  IF Len(s) >= 3 THEN s ELSE [k \in 1..(3 - Len(s)) |-> "0"] \o s

\* sep.join(parts)
RECURSIVE Join(_, _)
Join(sep, parts) ==
    IF parts = <<>> THEN <<>>
    ELSE IF Len(parts) = 1 THEN parts[1]
    ELSE parts[1] \o sep \o Join(sep, Tail(parts))

IsSpace(c) == c \in {SP, NL}

RECURSIVE LStrip(_)
LStrip(s) ==
    IF s = <<>> THEN <<>>
    ELSE IF IsSpace(Head(s)) THEN LStrip(Tail(s)) ELSE s

RECURSIVE RStrip(_)
RStrip(s) ==
    IF s = <<>> THEN <<>>
    ELSE IF IsSpace(s[Len(s)]) THEN RStrip(SubSeq(s, 1, Len(s) - 1)) ELSE s

\* str.strip()
Strip(s) == RStrip(LStrip(s))

\* os.path.join(output_dir, name)
PathJoin(dir, name) == <<dir, name>>

ImageName(n) == <<"page_">> \o Pad3(n) \o <<".png">>
TextName(n) == <<"page_">> \o Pad3(n) \o <<".txt">>

\* mutant: open(name, 'a'), appending to what the file holds
AppendFile(fs, name, content) ==
    [f \in DOMAIN fs \cup {name} |->
        IF f = name
        THEN (IF name \in DOMAIN fs THEN fs[name] \o content ELSE content)
        ELSE fs[f]]

\* open(name, 'w').write(content)
WriteFile(fs, name, content) ==
    [f \in DOMAIN fs \cup {name} |-> IF f = name THEN content ELSE fs[f]]

\* os.makedirs(dir, exist_ok=True)
MakeDirs(ds, dir) == ds \cup {dir}

----------------------------------------------------------------------------
(* Text extraction: the loop  text += ' '.join(w.text for w in line) + '\n' *)

\* mutant: ''.join instead of ' '.join
RECURSIVE ExtractTextNoSpace(_)
ExtractTextNoSpace(lines) ==
    IF lines = <<>> THEN <<>>
    ELSE Join(<<>>, lines[1]) \o <<NL>> \o ExtractTextNoSpace(Tail(lines))

RECURSIVE ExtractText(_)
ExtractText(lines) ==
    IF lines = <<>> THEN <<>>
    ELSE Join(<<SP>>, lines[1]) \o <<NL>> \o ExtractText(Tail(lines))

\* sum(len(line) for line in read_lines)
RECURSIVE SumLen(_)
SumLen(lines) ==
    IF lines = <<>> THEN 0 ELSE Len(lines[1]) + SumLen(Tail(lines))

----------------------------------------------------------------------------
(* Toolchain location                                                      *)

PossiblePaths(script) ==
    IF script = SIMPLE
    THEN <<"C:/poppler/poppler/Library/bin", "C:/poppler/bin",
           "C:/Program Files/poppler/bin">>
    ELSE IF script = PDFDEMO
    THEN <<"C:/poppler/poppler/Library/bin", "C:/Program Files/poppler/bin",
           "C:/poppler/bin", "C:/Users/USERNAME/AppData/Local/Programs/poppler/bin">>
    ELSE <<"C:/poppler/poppler/Library/bin", "C:/poppler/bin",
           "C:/Program Files/poppler/bin", "C:/Program Files (x86)/poppler/bin">>

RECURSIVE FirstExisting(_, _)
FirstExisting(paths, ds) ==
    IF paths = <<>> THEN None
    ELSE IF Head(paths) \in ds THEN Head(paths)
    ELSE FirstExisting(Tail(paths), ds)

find_poppler(script, ds) == FirstExisting(PossiblePaths(script), ds)

\* mutant: falling back to a default directory when nothing is found
LocatedPathDefault(a, ds) ==
    IF a.poppler_path # None THEN a.poppler_path
    ELSE IF find_poppler(a.script, ds) # None THEN find_poppler(a.script, ds)
    ELSE Custom

\* self.poppler_path or self.find_poppler()
LocatedPath(a, ds) ==
    IF a.poppler_path # None THEN a.poppler_path ELSE find_poppler(a.script, ds)

ToolchainDirs ==
    {"C:/poppler/poppler/Library/bin", "C:/poppler/bin",
     "C:/Program Files/poppler/bin", "C:/Program Files (x86)/poppler/bin",
     "C:/Users/USERNAME/AppData/Local/Programs/poppler/bin", Custom}

----------------------------------------------------------------------------
(* Materialization helpers                                                 *)

\* "if output_dir:" is true of a non-empty string only
Truthy(dir) == dir \notin {None, Cwd}

\* mutant: the page images kept in memory only
SavesImagesNever(a) == FALSE

\* check.py's pdf_to_images takes no output_dir
SavesImages(a) == a.script # WEBUI /\ Truthy(a.output_dir)

\* mutant: enumerate(xs) without the start, numbering from 0
EnumerateFrom0(k) == k - 1

\* enumerate(xs, 1) / enumerate(xs, start=1): the number given to the k-th item
EnumerateFrom1(k) == k

\* pil_image.convert('L') when pil_image.mode != 'L'
ToGray(pil) == IF pil.mode # "L" THEN [pil EXCEPT !.mode = "L"] ELSE pil

\* np.array(pil_image)
NdArray(pil) ==
    [kind |-> "ndarray", page |-> pil.page,
     channels |-> IF pil.mode = "L" THEN 1 ELSE 3]

\* pil_image.save(image_path, "PNG")
PngOf(pil) == [format |-> "PNG", page |-> pil.page, mode |-> pil.mode]

\* the return statement of pdf_to_images / convert_pdf_to_images
MaterializeReturn(a, cv2, paths) ==
    IF a.script = PDFDEMO /\ Truthy(a.output_dir)
    THEN [k \in 1..Len(paths) |-> [kind |-> "str", path |-> paths[k]]]
    ELSE cv2

----------------------------------------------------------------------------
(* Recognition helpers                                                     *)

\* load_dictionary(): the PrefixTree, or None when the word list cannot be read
load_dictionary(a) == IF a.dict_exists THEN Tree ELSE None

\* the decoder handed to ReaderConfig
DecoderArg(a) ==
    IF a.script = PDFDEMO THEN a.decoder
    ELSE IF a.use_dictionary THEN "word_beam_search" ELSE "best_path"

\* the prefix_tree handed to ReaderConfig
PrefixTreeArg(a) ==
    IF a.script = SIMPLE
    THEN (IF a.use_dictionary THEN load_dictionary(a) ELSE None)
    ELSE IF a.script = PDFDEMO THEN None
    ELSE (IF a.use_dictionary THEN Tree ELSE None)

\* mutant: the page loop ending one item early
ExhaustedEarly(k, xs) == k >= Len(xs)

\* "for i, image in enumerate(images, 1)": no k-th item is left in xs
Exhausted(k, xs) == k > Len(xs)

\* image.shape: carried as the identity of the page the image shows
Shape(image) == [of_page |-> image.page]

\* gradio_demo.py: the dict appended by process_pdf_file
SimpleResult(n, lines, image) ==
    [page |-> n, text |-> Strip(ExtractText(lines)), image_shape |-> Shape(image)]

\* mutant: lines_count leaving out the zero-word lines
PageResultFiltered(n, lines, image) ==
    [page_number |-> n,
     text |-> Strip(ExtractText(lines)),
     lines_count |-> Cardinality({l \in 1..Len(lines) : lines[l] # <<>>}),
     words_count |-> SumLen(lines),
     image_shape |-> Shape(image)]

\* pdf_demo_not_working.py: the dict appended by process_pdf_with_htr
PageResult(n, lines, image) ==
    [page_number |-> n,
     text |-> Strip(ExtractText(lines)),
     lines_count |-> Len(lines),
     words_count |-> SumLen(lines),
     image_shape |-> Shape(image)]

\* check.py: the text returned by process_page
WebPageText(lines) == ExtractText(lines)

\* check.py: f"--- Page {page_num + 1} ---\n{page_text}\n\n"
WebSection(page_num, page_text) ==
    <<"--- Page ">> \o Str(page_num + 1) \o <<" ---", NL>> \o page_text \o <<NL, NL>>

PageNo(script, r) == IF script = SIMPLE THEN r.page ELSE r.page_number

----------------------------------------------------------------------------
(* Persistence helpers                                                     *)

\* the loop writing page_NNN.txt for every result
RECURSIVE WritePages(_, _, _, _)
WritePages(fs, script, res, dir) ==
    IF res = <<>> THEN fs
    ELSE WritePages(
             WriteFile(fs, PathJoin(dir, TextName(PageNo(script, res[1]))), res[1].text),
             script, Tail(res), dir)

\* gradio_demo.py: the writes to all_pages.txt
RECURSIVE AllPagesText(_)
AllPagesText(res) ==
    IF res = <<>> THEN <<>>
    ELSE <<"=== Page ">> \o Str(res[1].page) \o <<" ===", NL>>
         \o res[1].text \o <<NL, NL>>
         \o AllPagesText(Tail(res))

\* pdf_demo_not_working.py: f"--- Page {n} ---\n{text}\n"
DemoSection(r) ==
    <<"--- Page ">> \o Str(r.page_number) \o <<" ---", NL>> \o r.text \o <<NL>>

\* pdf_demo_not_working.py: "\n".join([... for r in results])
DemoCombined(res) == Join(<<NL>>, [k \in 1..Len(res) |-> DemoSection(res[k])])

CombinedName(script) ==
    IF script = SIMPLE THEN <<"all_pages.txt">> ELSE <<"combined_results.txt">>

\* mutant: save_results without os.makedirs
save_results_no_makedirs(ds, fs, res, dir) ==
    IF res = <<>> THEN <<ds, fs>>
    ELSE <<ds,
           WriteFile(WritePages(fs, SIMPLE, res, dir),
                     PathJoin(dir, CombinedName(SIMPLE)), AllPagesText(res))>>

\* gradio_demo.py save_results(results, output_dir): the new <<dirs, files>>
save_results(ds, fs, res, dir) ==
    IF res = <<>> THEN <<ds, fs>>
    ELSE <<MakeDirs(ds, dir),
           WriteFile(WritePages(fs, SIMPLE, res, dir),
                     PathJoin(dir, CombinedName(SIMPLE)), AllPagesText(res))>>

\* mutant: the output directory emptied before the text files are written
process_pdf_to_files_clean(fs, res, dir) ==
    WriteFile(WritePages([f \in {g \in DOMAIN fs : g[1] # dir} |-> fs[f]],
                         PDFDEMO, res, dir),
              PathJoin(dir, CombinedName(PDFDEMO)), DemoCombined(res))

\* pdf_demo_not_working.py process_pdf_to_files: the files after its writes
process_pdf_to_files(fs, res, dir) ==
    WriteFile(WritePages(fs, PDFDEMO, res, dir),
              PathJoin(dir, CombinedName(PDFDEMO)), DemoCombined(res))

----------------------------------------------------------------------------
(* What a raised exception becomes for the caller of the entry point       *)

\* mutant: gradio_demo.py's except branch returning the results gathered so far
CaughtPartial(script, e) ==
    IF script = SIMPLE THEN [kind |-> "list", value |-> results]
    ELSE IF script = WEBUI THEN [kind |-> "error_msg", value |-> e]
    ELSE [kind |-> "raised", value |-> e]

Caught(script, e) ==
    IF script = SIMPLE THEN [kind |-> "None", value |-> e]
    ELSE IF script = WEBUI THEN [kind |-> "error_msg", value |-> e]
    ELSE [kind |-> "raised", value |-> e]

\* mutant: the failure swallowed and the stage entered again
RaiseRetry(e) == pc' = pc /\ ret' = ret

\* an exception leaves the stage: nothing of the run executes after it
Raise(e) == pc' = "failed" /\ ret' = Caught(args.script, e)

ListOf(res) == [kind |-> "list", value |-> res]

----------------------------------------------------------------------------
(* Initial states                                                          *)

SimpleArgs ==
    {[script |-> SIMPLE, to_files |-> FALSE, n_pages |-> n, pdf_given |-> TRUE,
      pdf_exists |-> e, poppler_path |-> None, output_dir |-> o,
      use_dictionary |-> u, decoder |-> None, dict_exists |-> d] :
        n \in 0..MaxPages, e \in BOOLEAN, o \in {None, OutDir},
        u \in BOOLEAN, d \in BOOLEAN}

DemoArgs ==
    {[script |-> PDFDEMO, to_files |-> t, n_pages |-> n, pdf_given |-> TRUE,
      pdf_exists |-> e, poppler_path |-> p, output_dir |-> o,
      use_dictionary |-> FALSE, decoder |-> c, dict_exists |-> TRUE] :
        t \in BOOLEAN, n \in 0..MaxPages, e \in BOOLEAN, p \in {None, Custom},
        o \in {None, Cwd, OutDir}, c \in {"best_path", "word_beam_search"}}

WebArgs ==
    {[script |-> WEBUI, to_files |-> FALSE, n_pages |-> n, pdf_given |-> g,
      pdf_exists |-> e, poppler_path |-> None, output_dir |-> None,
      use_dictionary |-> u, decoder |-> None, dict_exists |-> TRUE] :
        n \in 0..MaxPages, g \in BOOLEAN, e \in BOOLEAN, u \in BOOLEAN}

\* a document that does not exist has no pages; the word list matters only
\* to a run that loads it
ArgsSet ==
    {a \in SimpleArgs \cup DemoArgs \cup WebArgs :
        /\ (~a.pdf_exists => a.n_pages = 0)
        /\ (~a.pdf_given => ~a.pdf_exists)
        /\ (~a.use_dictionary => a.dict_exists)}

InitialDirs ==
    {{Cwd} \cup t \cup o :
        t \in {s \in SUBSET ToolchainDirs : Cardinality(s) <= MaxInstalled},
        o \in {{}, {OutDir}}}

NoFiles == [f \in {} |-> <<>>]

Init ==
    /\ args \in ArgsSet
    /\ dirs \in InitialDirs
    /\ files = NoFiles
    /\ pc = "init"
    /\ poppler = None
    /\ pil_images = <<>>
    /\ cv2_images = <<>>
    /\ image_paths = <<>>
    /\ images = <<>>
    /\ i = 0
    /\ read_lines = <<>>
    /\ results = <<>>
    /\ full_text = <<>>
    /\ vis = <<>>
    /\ ret = [kind |-> "pending", value |-> None]
    /\ raster_calls = 0
    /\ read_calls = <<>>

----------------------------------------------------------------------------
(* Actions                                                                 *)

\* The entry point is called: check.py rejects a missing upload; the
\* other two check that the PDF exists before anything else.
Begin ==
    /\ pc = "init"
    /\ IF args.script = WEBUI
       THEN IF ~args.pdf_given
            THEN /\ pc' = "rejected"
                 /\ ret' = [kind |-> "message", value |-> "Please upload a PDF file"]
            ELSE pc' = "locating" /\ UNCHANGED ret
       ELSE IF ~args.pdf_exists
            THEN Raise("FileNotFoundError")
            ELSE pc' = "locating" /\ UNCHANGED ret
    /\ UNCHANGED <<args, dirs, files, poppler, pil_images, cv2_images,
                   image_paths, images, i, read_lines, results, full_text,
                   vis, raster_calls, read_calls>>

\* poppler_path = self.poppler_path or self.find_poppler(); raise if none
LocateToolchain ==
    /\ pc = "locating"
    /\ LET p == LocatedPath(args, dirs)
       IN  IF p = None
           THEN Raise("RuntimeError: Poppler not found") /\ UNCHANGED poppler
           ELSE pc' = "rasterizing" /\ poppler' = p /\ UNCHANGED ret
    /\ UNCHANGED <<args, dirs, files, pil_images, cv2_images, image_paths,
                   images, i, read_lines, results, full_text, vis,
                   raster_calls, read_calls>>

\* convert_from_path(...), then os.makedirs(output_dir, exist_ok=True)
Rasterize ==
    /\ pc = "rasterizing"
    /\ raster_calls' = raster_calls + 1
    /\ \/ /\ args.pdf_exists
          /\ poppler \in dirs
          /\ \E m \in {"RGB", "L"} :
                pil_images' = [k \in 1..args.n_pages |-> [page |-> k, mode |-> m]]
          /\ dirs' = IF SavesImages(args) THEN MakeDirs(dirs, args.output_dir) ELSE dirs
          /\ pc' = "converting"
          /\ UNCHANGED ret
       \/ /\ Raise("RasterizationFailed")
          /\ UNCHANGED <<pil_images, dirs>>
    /\ UNCHANGED <<args, files, poppler, cv2_images, image_paths, images, i,
                   read_lines, results, full_text, vis, read_calls>>

\* one iteration of the conversion loop of pdf_to_images / convert_pdf_to_images
ConvertPage ==
    /\ pc = "converting"
    /\ Len(cv2_images) < Len(pil_images)
    /\ LET k == Len(cv2_images) + 1
           n == EnumerateFrom1(k)
           pil == ToGray(pil_images[k])
           image_path == PathJoin(args.output_dir, ImageName(n))
       IN  /\ cv2_images' = Append(cv2_images, NdArray(pil))
           /\ IF SavesImages(args)
              THEN /\ files' = WriteFile(files, image_path, PngOf(pil))
                   /\ image_paths' = IF args.script = PDFDEMO
                                     THEN Append(image_paths, image_path)
                                     ELSE image_paths
              ELSE UNCHANGED <<files, image_paths>>
    /\ UNCHANGED <<args, pc, dirs, poppler, pil_images, images, i, read_lines,
                   results, full_text, vis, ret, raster_calls, read_calls>>

\* the conversion loop is over: the list is returned and the page loop starts
ReturnImages ==
    /\ pc = "converting"
    /\ Len(cv2_images) = Len(pil_images)
    /\ images' = MaterializeReturn(args, cv2_images, image_paths)
    /\ i' = 1
    /\ pc' = "recognizing"
    /\ UNCHANGED <<args, dirs, files, poppler, pil_images, cv2_images,
                   image_paths, read_lines, results, full_text, vis, ret,
                   raster_calls, read_calls>>

\* read_page(image, ..., reader_config=ReaderConfig(decoder, prefix_tree))
Recognize ==
    /\ pc = "recognizing"
    /\ ~Exhausted(i, images)
    /\ read_calls' = Append(read_calls,
                            [image |-> images[i], decoder |-> DecoderArg(args),
                             prefix_tree |-> PrefixTreeArg(args)])
    /\ \/ /\ \E out \in SamplePages : read_lines' = out
          /\ pc' = "aggregating"
          /\ UNCHANGED ret
       \/ /\ Raise("RecognitionFailed")
          /\ UNCHANGED read_lines
    /\ UNCHANGED <<args, dirs, files, poppler, pil_images, cv2_images,
                   image_paths, images, i, results, full_text, vis,
                   raster_calls>>

\* the text of the page is extracted and the page's entry is appended
Aggregate ==
    /\ pc = "aggregating"
    /\ IF args.script = SIMPLE
       THEN /\ results' = Append(results,
                                 SimpleResult(EnumerateFrom1(i), read_lines, images[i]))
            /\ i' = i + 1
            /\ pc' = "recognizing"
            /\ UNCHANGED <<full_text, vis, ret>>
       ELSE IF args.script = PDFDEMO
       THEN IF images[i].kind = "ndarray"
            THEN /\ results' = Append(results,
                                      PageResult(EnumerateFrom1(i), read_lines, images[i]))
                 /\ i' = i + 1
                 /\ pc' = "recognizing"
                 /\ UNCHANGED <<full_text, vis, ret>>
            ELSE /\ Raise("AttributeError: 'str' object has no attribute 'shape'")
                 /\ UNCHANGED <<results, i, full_text, vis>>
       ELSE /\ full_text' = full_text \o WebSection(i - 1, WebPageText(read_lines))
            /\ vis' = Append(vis, [kind |-> "vis_img", page |-> images[i].page])
            /\ i' = i + 1
            /\ pc' = "recognizing"
            /\ UNCHANGED <<results, ret>>
    /\ UNCHANGED <<args, dirs, files, poppler, pil_images, cv2_images,
                   image_paths, images, read_lines, raster_calls, read_calls>>

\* the page loop is over
ReturnResults ==
    /\ pc = "recognizing"
    /\ Exhausted(i, images)
    /\ IF args.script = WEBUI
       THEN /\ ret' = [kind |-> "tuple", value |-> full_text,
                       image |-> IF vis # <<>> THEN vis[1].page ELSE 0]
            /\ pc' = "done"
       ELSE IF args.script = PDFDEMO /\ args.to_files
       THEN pc' = "persisting" /\ UNCHANGED ret
       ELSE ret' = ListOf(results) /\ pc' = "done"
    /\ UNCHANGED <<args, dirs, files, poppler, pil_images, cv2_images,
                   image_paths, images, i, read_lines, results, full_text,
                   vis, raster_calls, read_calls>>

\* pdf_demo_not_working.py: process_pdf_to_files writes the text files
WriteTextFiles ==
    /\ pc = "persisting"
    /\ IF args.output_dir = None
       THEN Raise("TypeError") /\ UNCHANGED files
       ELSE IF args.output_dir \notin dirs
       THEN Raise("FileNotFoundError") /\ UNCHANGED files
       ELSE /\ files' = process_pdf_to_files(files, results, args.output_dir)
            /\ ret' = ListOf(results)
            /\ pc' = "done"
    /\ UNCHANGED <<args, dirs, poppler, pil_images, cv2_images, image_paths,
                   images, i, read_lines, results, full_text, vis,
                   raster_calls, read_calls>>

\* gradio_demo.py __main__, which runs process_pdf_file(pdf_file,
\* output_dir="extracted_results", use_dictionary=False):
\* "if results: ... save_results(results, "extracted_results")"
MainSaveResults ==
    /\ args.script = SIMPLE
    /\ args.output_dir = OutDir
    /\ ~args.use_dictionary
    /\ pc = "done"
    /\ ret.kind = "list"
    /\ ret.value # <<>>
    /\ LET saved == save_results(dirs, files, ret.value, OutDir)
       IN  dirs' = saved[1] /\ files' = saved[2]
    /\ pc' = "saved"
    /\ UNCHANGED <<args, poppler, pil_images, cv2_images, image_paths, images,
                   i, read_lines, results, full_text, vis, ret, raster_calls,
                   read_calls>>

\* gradio_demo.py: save_results called on a returned list, a first or a further time
CallSaveResults ==
    /\ args.script = SIMPLE
    /\ pc \in {"done", "saved"}
    /\ ret.kind = "list"
    /\ LET saved == save_results(dirs, files, ret.value, OutDir)
       IN  dirs' = saved[1] /\ files' = saved[2]
    /\ pc' = "saved"
    /\ UNCHANGED <<args, poppler, pil_images, cv2_images, image_paths, images,
                   i, read_lines, results, full_text, vis, ret, raster_calls,
                   read_calls>>

Next ==
    \/ Begin
    \/ LocateToolchain
    \/ Rasterize
    \/ ConvertPage
    \/ ReturnImages
    \/ Recognize
    \/ Aggregate
    \/ ReturnResults
    \/ WriteTextFiles
    \/ MainSaveResults
    \/ CallSaveResults

Spec == Init /\ [][Next]_vars

----------------------------------------------------------------------------
(* The text specification: a one-page run at the point where read_page has *)
(* just returned, with the returned lines drawn from BoundedPages, followed *)
(* by the run's own aggregation and return steps.                          *)

TextArgs(script) ==
    [script |-> script, to_files |-> FALSE, n_pages |-> 1, pdf_given |-> TRUE,
     pdf_exists |-> TRUE, poppler_path |-> None, output_dir |-> None,
     use_dictionary |-> FALSE,
     decoder |-> IF script = PDFDEMO THEN "best_path" ELSE None,
     dict_exists |-> TRUE]

TextInit ==
    /\ args \in {TextArgs(s) : s \in {SIMPLE, PDFDEMO}}
    /\ dirs = {Cwd, PossiblePaths(args.script)[1]}
    /\ files = NoFiles
    /\ pc = "aggregating"
    /\ poppler = PossiblePaths(args.script)[1]
    /\ pil_images = <<[page |-> 1, mode |-> "RGB"]>>
    /\ cv2_images = <<NdArray(ToGray(pil_images[1]))>>
    /\ image_paths = <<>>
    /\ images = MaterializeReturn(args, cv2_images, image_paths)
    /\ i = 1
    /\ read_lines \in BoundedPages
    /\ results = <<>>
    /\ full_text = <<>>
    /\ vis = <<>>
    /\ ret = [kind |-> "pending", value |-> None]
    /\ raster_calls = 1
    /\ read_calls = <<[image |-> images[1], decoder |-> DecoderArg(args),
                       prefix_tree |-> PrefixTreeArg(args)]>>

TextNext ==
    \/ Aggregate
    \/ ReturnResults

TextSpec == TextInit /\ [][TextNext]_vars

----------------------------------------------------------------------------
(* Helpers of the properties                                               *)

Range(f) == {f[x] : x \in DOMAIN f}

Returned == ret.kind \in {"list", "tuple"}

\* str.split(sep) for a one-character separator: always at least one piece
RECURSIVE SplitAcc(_, _, _)
SplitAcc(s, sep, cur) ==
    IF s = <<>> THEN <<cur>>
    ELSE IF Head(s) = sep THEN <<cur>> \o SplitAcc(Tail(s), sep, <<>>)
    ELSE SplitAcc(Tail(s), sep, Append(cur, Head(s)))

Split(s, sep) == SplitAcc(s, sep, <<>>)

\* The text split by newline, each piece split by a single space. An empty
\* text is read as no lines and an empty piece as a line of no words: the
\* reading under which a zero-word line can be given back at all.
ParsePage(text) ==
    LET pieces == IF text = <<>> THEN <<>> ELSE Split(text, NL)
    IN  [k \in 1..Len(pieces) |->
            IF pieces[k] = <<>> THEN <<>> ELSE Split(pieces[k], SP)]

\* the words of a page, as (line, position) pairs
WordSlots(lines) ==
    UNION {{<<l, w>> : w \in 1..Len(lines[l])} : l \in 1..Len(lines)}

----------------------------------------------------------------------------
(* C1: a run that returns a result list over a document of N pages returns *)
(* exactly N results, and the k-th result carries page index k and is the  *)
(* result of the k-th page of the document.                                *)
C1_PageAligned ==
    ret.kind = "list" =>
        /\ Len(ret.value) = args.n_pages
        /\ \A k \in 1..Len(ret.value) :
              /\ PageNo(args.script, ret.value[k]) = k
              /\ ret.value[k].image_shape.of_page = k

C1_Witness ==
    /\ ret.kind = "list"
    /\ Len(ret.value) = 2
    /\ args.script = PDFDEMO

----------------------------------------------------------------------------
(* C2: the batch is all-or-nothing. A failed run hands its caller no       *)
(* result list (gradio_demo.py: None; check.py: an error message without   *)
(* any page text; pdf_demo_not_working.py: the exception), and a result is *)
(* returned only once read_page was called on, and returned for, every     *)
(* page of the document.                                                   *)
C2_AllOrNothing ==
    /\ pc = "failed" =>
          /\ ret.kind \in {"None", "error_msg", "raised"}
          /\ ret.value \in {"FileNotFoundError", "RuntimeError: Poppler not found",
                            "RasterizationFailed", "RecognitionFailed", "TypeError",
                            "AttributeError: 'str' object has no attribute 'shape'"}
    /\ Returned =>
          /\ pc \in {"done", "saved"}
          /\ Len(read_calls) = args.n_pages
          /\ i = args.n_pages + 1
          /\ args.script # WEBUI => Len(results) = args.n_pages

C2_Witness ==
    /\ pc = "failed"
    /\ ret.value = "RecognitionFailed"
    /\ Len(read_calls) = 2
    /\ Len(results) = 1

----------------------------------------------------------------------------
NoToolchain ==
    /\ args.poppler_path = None
    /\ \A p \in Range(PossiblePaths(args.script)) : p \notin dirs

HasDocument ==
    /\ args.pdf_given
    /\ args.script # WEBUI => args.pdf_exists

(* C3, as claimed: with no explicit toolchain path and none of the probed  *)
(* locations present, the run fails with the toolchain-not-found error,    *)
(* and it never invokes the rasterization engine, writes a page image or   *)
(* creates a directory.                                                    *)
C3_ToolchainErrorAlways ==
    NoToolchain =>
        /\ raster_calls = 0
        /\ DOMAIN files = {}
        /\ pc \in {"init", "locating", "failed"}
        /\ pc = "failed" => ret.value = "RuntimeError: Poppler not found"

C3_State ==
    NoToolchain =>
        /\ raster_calls = 0
        /\ pil_images = <<>> /\ cv2_images = <<>> /\ images = <<>>
        /\ DOMAIN files = {}
        /\ read_calls = <<>>
        /\ pc \in {"init", "locating", "failed", "rejected"}
        /\ (HasDocument /\ pc = "failed") => ret.value = "RuntimeError: Poppler not found"
        /\ HasDocument => pc # "rejected"

C3_Step == NoToolchain => dirs' = dirs /\ files' = files

(* C3, amended: with no explicit toolchain path and none of the probed     *)
(* locations present, a run over a document that was supplied and exists   *)
(* fails with the toolchain-not-found error; and in every run without a    *)
(* toolchain, whatever the document, the rasterization engine is never     *)
(* invoked, no page image is produced or written and no directory is       *)
(* created.                                                                *)
C3_NoImageBeforeToolchain == [](C3_State) /\ [][C3_Step]_vars

C3_Witness ==
    /\ NoToolchain
    /\ pc = "failed"
    /\ ret.value = "RuntimeError: Poppler not found"
    /\ args.output_dir = OutDir
    /\ OutDir \notin dirs

----------------------------------------------------------------------------
(* C4: read_page is never called with decoder 'word_beam_search' and no    *)
(* prefix tree, and at every call a prefix tree is passed exactly when the *)
(* decoder is 'word_beam_search'.                                          *)
C4_LexiconMatchesDecoder ==
    \A k \in 1..Len(read_calls) :
        (read_calls[k].decoder = "word_beam_search") <=>
        (read_calls[k].prefix_tree # None)

----------------------------------------------------------------------------
(* Pages the round trip of the page text is stated for                     *)

WordsHaveText(lines) ==
    \A l \in 1..Len(lines) : \A w \in 1..Len(lines[l]) : lines[l][w] # <<>>

NoEmptyLineOrWord(lines) ==
    /\ lines # <<>>
    /\ WordsHaveText(lines)
    /\ \A l \in 1..Len(lines) : lines[l] # <<>>

----------------------------------------------------------------------------
(* C6: in a page result of pdf_demo_not_working.py, words_count is the     *)
(* number of words of the page's lines and lines_count is the number of    *)
(* lines, zero-word lines included; a page without lines has both counts 0 *)
(* and empty text.                                                         *)
C6_Counts ==
    (args.script = PDFDEMO /\ Len(results) = 1) =>
        /\ results[1].lines_count = Len(read_lines)
        /\ results[1].words_count = Cardinality(WordSlots(read_lines))
        /\ read_lines = <<>> =>
              /\ results[1].lines_count = 0
              /\ results[1].words_count = 0
              /\ results[1].text = <<>>

C6_Witness ==
    /\ args.script = PDFDEMO
    /\ Len(results) = 1
    /\ Len(read_lines) = 2
    /\ read_lines[1] = <<>>
    /\ Len(read_lines[2]) = 2
    /\ results[1].lines_count = 2
    /\ results[1].words_count = 2

----------------------------------------------------------------------------
(* C7: the list handed to the page loop by pdf_to_images /                 *)
(* convert_pdf_to_images holds, for a document of N pages, the N           *)
(* single-channel page images in page order, with or without an output     *)
(* directory; with one, page k is also written as page_00k.                *)
C7_ImagesReturned ==
    pc \in {"recognizing", "aggregating"} =>
        /\ Len(images) = args.n_pages
        /\ \A k \in 1..Len(images) :
              /\ images[k].kind = "ndarray"
              /\ images[k].channels = 1
              /\ images[k].page = k
              /\ SavesImages(args) =>
                    PathJoin(args.output_dir, ImageName(k)) \in DOMAIN files

----------------------------------------------------------------------------
(* C8: persisting is idempotent: once the results are persisted, running   *)
(* the same writes again on the same results and directory leaves the      *)
(* directories, the set of files and every file's content as they are.     *)
C8_PersistIdempotent ==
    /\ (args.script = SIMPLE /\ pc = "saved") =>
          save_results(dirs, files, ret.value, OutDir) = <<dirs, files>>
    /\ (args.script = PDFDEMO /\ args.to_files /\ pc = "done") =>
          process_pdf_to_files(files, results, args.output_dir) = files

C8_Witness ==
    /\ args.script = SIMPLE
    /\ pc = "saved"
    /\ Len(ret.value) = 2
    /\ ret.value[1].text # <<>>
    /\ PathJoin(OutDir, CombinedName(SIMPLE)) \in DOMAIN files

----------------------------------------------------------------------------
(* C9: the combined artifact holds, for every page of the results in page  *)
(* order, the last page included, a header line, the page's text and a     *)
(* blank separator line.                                                   *)
RECURSIVE ClaimedCombined(_, _)
ClaimedCombined(script, res) ==
    IF res = <<>> THEN <<>>
    ELSE (IF script = SIMPLE
          THEN <<"=== Page ">> \o Str(PageNo(script, res[1])) \o <<" ===">>
          ELSE <<"--- Page ">> \o Str(PageNo(script, res[1])) \o <<" ---">>)
         \o <<NL>> \o res[1].text \o <<NL>> \o <<NL>>
         \o ClaimedCombined(script, Tail(res))

C9_CombinedSections ==
    /\ (args.script = SIMPLE /\ pc = "saved" /\ ret.value # <<>>) =>
          files[PathJoin(OutDir, CombinedName(SIMPLE))] =
              ClaimedCombined(SIMPLE, ret.value)
    /\ (args.script = PDFDEMO /\ args.to_files /\ pc = "done") =>
          files[PathJoin(args.output_dir, CombinedName(PDFDEMO))] =
              ClaimedCombined(PDFDEMO, results)

----------------------------------------------------------------------------
(* C10, as claimed: after persist returns, for any results (zero pages     *)
(* included), the output directory exists.                                 *)
C10_DirAlwaysCreated ==
    /\ (args.script = SIMPLE /\ pc = "saved") => OutDir \in dirs
    /\ (args.script = PDFDEMO /\ args.to_files /\ pc = "done") =>
          args.output_dir \in dirs

(* C10, amended: after persist returns for results of at least one page,   *)
(* the output directory exists, whether or not it existed before and       *)
(* whether or not the materialization stage was given a directory          *)
(* (gradio_demo.py save_results creates it itself); after process_pdf_to_files *)
(* returns, the output directory exists.                                   *)
C10_DirCreatedForPages ==
    /\ (args.script = SIMPLE /\ pc = "saved" /\ ret.value # <<>>) =>
          /\ OutDir \in dirs
          /\ \A k \in 1..Len(ret.value) :
                PathJoin(OutDir, TextName(k)) \in DOMAIN files
    /\ (args.script = PDFDEMO /\ args.to_files /\ pc = "done") =>
          args.output_dir \in dirs

C10_Witness ==
    /\ args.script = SIMPLE
    /\ pc = "saved"
    /\ ret.value # <<>>
    /\ args.output_dir = None
    /\ OutDir \in dirs

----------------------------------------------------------------------------
\* the run has gone through the toolchain location step
PastLocating ==
    /\ pc \notin {"init", "locating", "rejected"}
    /\ ~(pc = "failed" /\ poppler = None /\ ret.value = "FileNotFoundError")

\* position of the first probed location that exists, 0 when none does
FirstProbeHit ==
    LET paths == PossiblePaths(args.script)
        hits == {k \in 1..Len(paths) : paths[k] \in dirs}
    IN  IF hits = {} THEN 0 ELSE CHOOSE k \in hits : \A j \in hits : k <= j

(* C11: an explicit toolchain path is used only when it exists; without    *)
(* one the located path is the first location of the script's list, in     *)
(* list order, that exists; and the run fails with the not-found error     *)
(* exactly when no explicit path was supplied and no probed location       *)
(* exists.                                                                 *)
C11_LocateContract ==
    /\ (poppler # None /\ args.poppler_path # None) =>
          /\ poppler = args.poppler_path
          /\ poppler \in dirs
    /\ (poppler # None /\ args.poppler_path = None) =>
          /\ FirstProbeHit # 0
          /\ poppler = PossiblePaths(args.script)[FirstProbeHit]
    /\ PastLocating =>
          ((pc = "failed" /\ ret.value = "RuntimeError: Poppler not found")
              <=> NoToolchain)

----------------------------------------------------------------------------
\* pages whose result has been appended (check.py: whose section and
\* visualization have been appended)
AggregatedCount == IF args.script = WEBUI THEN Len(vis) ELSE Len(results)

\* the text files present on the filesystem
TextFiles ==
    {f \in DOMAIN files :
        \/ f[2] \in {CombinedName(SIMPLE), CombinedName(PDFDEMO)}
        \/ \E k \in 1..(MaxPages + 2) : f[2] = TextName(k)}

\* the stage transitions of a run; in gradio_demo.py persisting is the
\* caller's save_results, made after process_pdf_file has returned
StageSteps ==
    {<<"init", "locating">>, <<"init", "failed">>, <<"init", "rejected">>,
     <<"locating", "rasterizing">>, <<"locating", "failed">>,
     <<"rasterizing", "converting">>, <<"rasterizing", "failed">>,
     <<"converting", "recognizing">>,
     <<"recognizing", "aggregating">>, <<"recognizing", "failed">>,
     <<"aggregating", "recognizing">>, <<"aggregating", "failed">>,
     <<"recognizing", "persisting">>, <<"recognizing", "done">>,
     <<"persisting", "done">>, <<"persisting", "failed">>,
     <<"done", "saved">>}

C12_State ==
    /\ pc \in {"init", "locating", "rasterizing", "converting"} =>
          read_calls = <<>> /\ AggregatedCount = 0 /\ TextFiles = {}
    /\ pc \in {"init", "locating", "rasterizing"} => cv2_images = <<>>
    /\ read_calls # <<>> =>
          /\ Len(cv2_images) = args.n_pages
          /\ Len(images) = args.n_pages
    /\ \A k \in 1..Len(read_calls) : read_calls[k].image = images[k]
    /\ Len(read_calls) - AggregatedCount \in {0, 1}
    /\ pc = "recognizing" => (AggregatedCount = Len(read_calls) /\ i = Len(read_calls) + 1)
    /\ pc = "aggregating" => (AggregatedCount = Len(read_calls) - 1 /\ i = Len(read_calls))
    /\ pc \in {"persisting", "done", "saved"} =>
          /\ AggregatedCount = args.n_pages
          /\ Len(read_calls) = args.n_pages
    /\ TextFiles # {} => pc \in {"done", "saved"}

C12_Step ==
    /\ pc' # pc => <<pc, pc'>> \in StageSteps
    /\ read_calls' # read_calls =>
          /\ pc = "recognizing"
          /\ AggregatedCount = Len(read_calls)
          /\ read_calls' = Append(read_calls, read_calls'[Len(read_calls) + 1])
          /\ read_calls'[Len(read_calls) + 1].image = images[Len(read_calls) + 1]
    /\ AggregatedCount' # AggregatedCount =>
          /\ pc = "aggregating"
          /\ AggregatedCount' = Len(read_calls)
    /\ cv2_images' # cv2_images => (pc = "converting" /\ read_calls = <<>>)

(* C12: a run goes through the stages in order. Each change of stage is    *)
(* one of init -> locating -> materializing -> (recognizing page i ->      *)
(* aggregating) for i = 1..N -> persisting -> done, or leads to failed;    *)
(* page 1 is recognized only once all N pages are materialized; the k-th   *)
(* recognition call is on page k and is made only when pages 1..k-1 have   *)
(* been recognized and appended; at most one page is recognized and not    *)
(* yet appended; text files are written, and done is reached, only after   *)
(* all N pages are appended.                                               *)
C12_StageOrder == [](C12_State) /\ [][C12_Step]_vars

C12_Witness ==
    /\ args.script = PDFDEMO
    /\ args.to_files
    /\ pc = "done"
    /\ args.n_pages = 2
    /\ Len(read_calls) = 2
    /\ Len(results) = 2
    /\ TextFiles # {}

----------------------------------------------------------------------------
C13_State ==
    /\ raster_calls <= 1
    /\ Len(read_calls) <= args.n_pages
    /\ \A j, k \in 1..Len(read_calls) :
          j # k => read_calls[j].image # read_calls[k].image
    /\ pc = "failed" =>
          /\ ret.kind \in {"None", "error_msg", "raised"}
          /\ TextFiles = {}
          /\ ret.value = "RuntimeError: Poppler not found" =>
                (raster_calls = 0 /\ read_calls = <<>>)
          /\ ret.value = "RasterizationFailed" =>
                (raster_calls = 1 /\ read_calls = <<>>)
          /\ ret.value = "RecognitionFailed" =>
                Len(read_calls) = AggregatedCount + 1

C13_Step ==
    /\ pc = "failed" => UNCHANGED vars
    /\ pc = "locating" => pc' # "locating"
    /\ pc' = "locating" => pc = "init"
    /\ poppler # None => poppler' = poppler
    /\ pc = "rasterizing" => pc' # "rasterizing"
    /\ pc' = "rasterizing" => pc = "locating"

(* C13: there are no retries. The toolchain is located at most once, the   *)
(* rasterization engine is invoked at most once and the recognition engine *)
(* at most once per page; a failed run makes no further call and writes    *)
(* nothing more (the pages after a failing page are never recognized), it  *)
(* stays failed, and it has written no text file.                          *)
C13_NoRetries == [](C13_State) /\ [][C13_Step]_vars

C13_Witness ==
    /\ args.script = SIMPLE
    /\ args.output_dir = OutDir
    /\ args.n_pages = 2
    /\ pc = "failed"
    /\ ret.value = "RecognitionFailed"
    /\ Len(read_calls) = 1
    /\ raster_calls = 1

----------------------------------------------------------------------------
\* the run was given a directory to persist into
WithPersistDir == args.script \in {SIMPLE, PDFDEMO} /\ args.output_dir = OutDir

\* the page image files present on the filesystem
ImageFiles ==
    {f \in DOMAIN files : \E k \in 1..(MaxPages + 2) : f[2] = ImageName(k)}

\* page_001.png .. page_N.png of the run's directory, each the PNG of its page
AllImagesWritten ==
    \A k \in 1..args.n_pages :
        /\ PathJoin(args.output_dir, ImageName(k)) \in DOMAIN files
        /\ files[PathJoin(args.output_dir, ImageName(k))].format = "PNG"
        /\ files[PathJoin(args.output_dir, ImageName(k))].page = k

C14_State ==
    WithPersistDir =>
        /\ ImageFiles \subseteq
              {PathJoin(args.output_dir, ImageName(k)) : k \in 1..args.n_pages}
        /\ read_calls # <<>> => AllImagesWritten
        /\ (pc = "failed" /\ read_calls # <<>>) =>
              (AllImagesWritten /\ TextFiles = {})
        /\ TextFiles # {} =>
              (Len(read_calls) = args.n_pages /\ pc \in {"done", "saved"})

C14_Step ==
    WithPersistDir =>
        /\ ImageFiles' # ImageFiles =>
              (pc = "converting" /\ read_calls = <<>> /\ read_calls' = <<>>)
        /\ TextFiles' # TextFiles =>
              /\ Len(read_calls) = args.n_pages
              /\ read_calls' = read_calls
              /\ ImageFiles' = ImageFiles
              /\ \A f \in ImageFiles : files'[f] = files[f]
        /\ read_calls' # read_calls => files' = files

(* C14: in a run given a persistence directory, the image files of all N   *)
(* pages are written during materialization, before the first recognition  *)
(* call, and text files are written only after the last recognition call:  *)
(* when recognition fails on a page, the N page image files exist and no   *)
(* per-page or combined text file has been written.                        *)
C14_ImagesBeforeTextAfter == [](C14_State) /\ [][C14_Step]_vars

C14_Witness ==
    /\ WithPersistDir
    /\ args.script = SIMPLE
    /\ args.n_pages = 2
    /\ pc = "failed"
    /\ ret.value = "RecognitionFailed"
    /\ Len(read_calls) = 2
    /\ Cardinality(ImageFiles) = 2
    /\ TextFiles = {}

----------------------------------------------------------------------------
(* The persistence specification: whole runs of the two scripts that write *)
(* text files, started on a filesystem that holds what an earlier run over *)
(* a document of up to MaxPages + 1 pages left in the same directory, and  *)
(* a file that no run wrote.                                               *)

PersistArgs ==
    {[script |-> SIMPLE, to_files |-> FALSE, n_pages |-> n, pdf_given |-> TRUE,
      pdf_exists |-> TRUE, poppler_path |-> None, output_dir |-> OutDir,
      use_dictionary |-> FALSE, decoder |-> None, dict_exists |-> TRUE] :
        n \in 0..MaxPages}
    \cup
    {[script |-> PDFDEMO, to_files |-> TRUE, n_pages |-> n, pdf_given |-> TRUE,
      pdf_exists |-> TRUE, poppler_path |-> None, output_dir |-> Cwd,
      use_dictionary |-> FALSE, decoder |-> "best_path", dict_exists |-> TRUE] :
        n \in 0..MaxPages}

\* what read_page returned for every page of the earlier run
OldLines == << << <<"o", "l", "d">> >> >>

OldImage(k) == NdArray([page |-> k, mode |-> "L"])

OldResults(script, m) ==
    [k \in 1..m |->
        IF script = SIMPLE THEN SimpleResult(k, OldLines, OldImage(k))
        ELSE PageResult(k, OldLines, OldImage(k))]

NotesName(dir) == PathJoin(dir, <<"notes.txt">>)

\* the page images an earlier run of gradio_demo.py saved
OldImageFiles(script, m) ==
    IF script = SIMPLE
    THEN [f \in {PathJoin(OutDir, ImageName(k)) : k \in 1..m} |->
             PngOf([page |-> CHOOSE k \in 1..m : f = PathJoin(OutDir, ImageName(k)),
                    mode |-> "L"])]
    ELSE NoFiles

\* <<dirs, files>> left by an earlier run over m pages (m = 0: no earlier run)
Earlier(script, m) ==
    LET dir == IF script = SIMPLE THEN OutDir ELSE Cwd
        tool == PossiblePaths(script)[1]
        imgs == OldImageFiles(script, m)
        fs0 == WriteFile(imgs, NotesName(dir), <<"n">>)
    IN  IF m = 0 THEN <<{Cwd, tool}, NoFiles>>
        ELSE IF script = SIMPLE
        THEN save_results({Cwd, tool}, fs0, OldResults(script, m), dir)
        ELSE <<{Cwd, tool}, process_pdf_to_files(fs0, OldResults(script, m), dir)>>

PersistInit ==
    /\ args \in PersistArgs
    /\ \E m \in 0..(MaxPages + 1) :
          /\ dirs = Earlier(args.script, m)[1]
          /\ files = Earlier(args.script, m)[2]
    /\ pc = "init"
    /\ poppler = None
    /\ pil_images = <<>>
    /\ cv2_images = <<>>
    /\ image_paths = <<>>
    /\ images = <<>>
    /\ i = 0
    /\ read_lines = <<>>
    /\ results = <<>>
    /\ full_text = <<>>
    /\ vis = <<>>
    /\ ret = [kind |-> "pending", value |-> None]
    /\ raster_calls = 0
    /\ read_calls = <<>>

PersistSpec == PersistInit /\ [][Next]_vars

----------------------------------------------------------------------------
\* the directory and the results persist is called with
PersistDir == IF args.script = SIMPLE THEN OutDir ELSE args.output_dir

PersistResults == IF args.script = SIMPLE THEN ret.value ELSE results

\* a step of save_results / of the writes of process_pdf_to_files
PersistStep ==
    \/ args.script = SIMPLE /\ pc \in {"done", "saved"} /\ pc' = "saved"
    \/ args.script = PDFDEMO /\ pc = "persisting" /\ pc' = "done"

\* the files persist may create or overwrite
PersistTargets ==
    {PathJoin(PersistDir, TextName(PageNo(args.script, PersistResults[k]))) :
        k \in 1..Len(PersistResults)}
    \cup {PathJoin(PersistDir, CombinedName(args.script))}

C15_Step ==
    PersistStep =>
        /\ DOMAIN files \subseteq DOMAIN files'
        /\ \A f \in DOMAIN files \ PersistTargets : files'[f] = files[f]
        /\ (DOMAIN files' \ DOMAIN files) \subseteq PersistTargets
        /\ \A k \in 1..Len(PersistResults) :
              files'[PathJoin(PersistDir, TextName(k))] = PersistResults[k].text

\* the text file of page k as the earlier run wrote it
IsOldPageFile(k) ==
    /\ PathJoin(PersistDir, TextName(k)) \in DOMAIN files
    /\ files[PathJoin(PersistDir, TextName(k))] = Strip(ExtractText(OldLines))

C15_State ==
    /\ \A k \in (args.n_pages + 1)..(MaxPages + 1) :
          PathJoin(PersistDir, TextName(k)) \in DOMAIN files => IsOldPageFile(k)
    /\ NotesName(PersistDir) \in DOMAIN files =>
          files[NotesName(PersistDir)] = <<"n">>

(* C15: persisting (save_results / the writes of process_pdf_to_files)     *)
(* only creates or overwrites the text files named for the pages of the    *)
(* results it is given and the combined file; no file is deleted and every *)
(* other file keeps its content, so the page text files an earlier run     *)
(* over a longer document left above the new page count, and files no run  *)
(* wrote, are unchanged after a later persist.                             *)
C15_PersistFrame == [](C15_State) /\ [][C15_Step]_vars

C15_Witness ==
    /\ pc \in {"done", "saved"}
    /\ args.script = SIMPLE => pc = "saved"
    /\ args.n_pages = 1
    /\ PersistResults # <<>>
    /\ files[PathJoin(PersistDir, TextName(1))] = PersistResults[1].text
    /\ PersistResults[1].text # Strip(ExtractText(OldLines))
    /\ IsOldPageFile(2)
    /\ IsOldPageFile(3)
    /\ NotesName(PersistDir) \in DOMAIN files

====
